---- MODULE Spec2Model ----
\* A model of zero-rabbit (src/index.js): the ZeroRabbit client, its channel map
\* and consumer-tag map, connect/setupTopology, getChannel and the operations
\* that go through it, against a broker library (amqplib) modelled as a
\* collaborator that answers each request with success or failure.
\*
\* JavaScript runs one job at a time.  An action of this model is one job: a
\* synchronous API call up to its first suspension, one promise continuation
\* (microtask), or one broker reply callback (macrotask).  Broker replies are
\* only delivered when no continuation is pending.
EXTENDS Integers, Sequences, FiniteSets, Bags, TLC

\* ---------------------------------------------------------------- bounds

\* Number of API calls the caller makes on the client.
MaxCalls == 3
\* Number of API calls of a caller that consumes and acknowledges.
MaxAckCalls == 4
\* Number of API calls of a caller while a full configuration is set up.
MaxTopologyCalls == 2
\* Total number of exchange, queue and binding entries of a configuration.
MaxEntries == 3
\* Number of API calls of a caller that gets, uses and closes channels.
MaxRegistryCalls == 5
\* Number of API calls of a caller that publishes and consumes messages.
MaxMessageCalls == 4
\* Nesting depth of the arrays and objects that are published.
MaxDepth == 1

\* Channel names used by the callers.
Names == {"a", "b"}

\* ------------------------------------------------------- values and maps

\* JavaScript's undefined, as the value of a variable or of a Map entry.
\* Channel handles, connection handles and consumer tags are 1, 2, ...
Undefined == 0

\* Map.prototype.get / set / delete on a Map modelled as a function whose
\* DOMAIN is the set of keys.
MapGet(m, k) == IF k \in DOMAIN m THEN m[k] ELSE Undefined

MapSet(m, k, v) == [x \in (DOMAIN m) \cup {k} |-> IF x = k THEN v ELSE m[x]]

MapDelete(m, k) == [x \in (DOMAIN m) \ {k} |-> m[x]]

EmptyMap == [x \in {} |-> Undefined]

\* JavaScript truthiness of the url option: undefined or a url.
Truthy(url) == url \notin {"undefined", ""}

Urls == {"undefined", "amqp://host"}

\* ------------------------------------------------------------- messages

\* JSON values, as records tagged with their type.  The members of an object
\* are kept in insertion order, as JavaScript keeps them.
JNull == [t |-> "null"]

JBool(b) == [t |-> "bool", b |-> b]

JNum(n) == [t |-> "num", n |-> n]

JStr(str) == [t |-> "str", s |-> str]

JArr(items) == [t |-> "arr", items |-> items]

JObj(keys, vals) == [t |-> "obj", keys |-> keys, vals |-> vals]

\* The default of the JsonMessage parameter of publish: {}.
EmptyObject == JObj(<<>>, <<>>)

JsonNumbers == {1}

JsonStrings == {"a", "b"}

JsonAtoms ==
    {JNull, JBool(TRUE)} \cup {JNum(n) : n \in JsonNumbers} \cup {JStr("a")}

\* The JSON values nested at most d deep, with at most two elements or
\* members in an array or object.
RECURSIVE JsonValuesUpTo(_)
JsonValuesUpTo(d) ==
    IF d = 0 THEN JsonAtoms
    ELSE LET inner == JsonValuesUpTo(d - 1) IN
         JsonAtoms \cup {JArr(<<>>), EmptyObject}
           \cup {JArr(<<x>>) : x \in inner}
           \cup {JArr(<<x, y>>) : x \in JsonAtoms, y \in inner}
           \cup {JObj(<<"a">>, <<x>>) : x \in inner}
           \cup {JObj(<<"a", "b">>, <<x, y>>) : x \in JsonAtoms, y \in inner}

JsonValues == JsonValuesUpTo(MaxDepth)

\* A JSON text is a sequence of tokens.  The token of a string is the string
\* in double quotes; the token of a number is its decimal notation.
Quote(str) == "\"" \o str \o "\""

StringTokens == {Quote(str) : str \in JsonStrings}

NumberTokens == {ToString(n) : n \in JsonNumbers}

\* JSON.stringify(value).
StringOf(v) ==
    IF v.t = "null" THEN <<"null">>
    ELSE IF v.t = "bool" THEN (IF v.b THEN <<"true">> ELSE <<"false">>)
    ELSE IF v.t = "num" THEN <<ToString(v.n)>>
    ELSE IF v.t = "str" THEN <<v.s>>
    ELSE <<"[object Object]">>

RECURSIVE JSONstringify(_)
JSONstringify(v) ==
    LET \* the elements i.. of an array, separated by commas
        RECURSIVE Items(_)
        Items(i) ==
            IF i > Len(v.items) THEN <<>>
            ELSE (IF i > 1 THEN <<",">> ELSE <<>>)
                   \o JSONstringify(v.items[i]) \o Items(i + 1)
        RECURSIVE Members(_)
        Members(i) ==
            IF i > Len(v.keys) THEN <<>>
            ELSE (IF i > 1 THEN <<",">> ELSE <<>>)
                   \o <<Quote(v.keys[i]), ":">>
                   \o JSONstringify(v.vals[i]) \o Members(i + 1)
    IN  IF v.t = "null" THEN <<"null">>
        ELSE IF v.t = "bool" THEN (IF v.b THEN <<"true">> ELSE <<"false">>)
        ELSE IF v.t = "num" THEN <<ToString(v.n)>>
        ELSE IF v.t = "str" THEN <<Quote(v.s)>>
        ELSE IF v.t = "arr" THEN <<"[">> \o Items(1) \o <<"]">>
        ELSE <<"{">> \o Members(1) \o <<"}">>

\* The outcome of a parse that throws a SyntaxError.
ParseError == [ok |-> FALSE, val |-> JNull, next |-> 0]

Parsed(v, next) == [ok |-> TRUE, val |-> v, next |-> next]

\* The JSON value that starts at token i of text x, with the position after it.
RECURSIVE ParseValue(_, _)
ParseValue(x, i) ==
    LET RECURSIVE ParseItems(_, _)
        ParseItems(j, acc) ==
            LET r == ParseValue(x, j) IN
            IF ~r.ok \/ r.next > Len(x) THEN ParseError
            ELSE IF x[r.next] = ","
                 THEN ParseItems(r.next + 1, Append(acc, r.val))
            ELSE IF x[r.next] = "]"
                 THEN Parsed(JArr(Append(acc, r.val)), r.next + 1)
            ELSE ParseError
        RECURSIVE ParseMembers(_, _, _)
        ParseMembers(j, keys, vals) ==
            IF j + 1 > Len(x) \/ x[j] \notin StringTokens \/ x[j + 1] # ":"
            THEN ParseError
            ELSE LET key == CHOOSE str \in JsonStrings : Quote(str) = x[j]
                     r == ParseValue(x, j + 2) IN
                 IF ~r.ok \/ r.next > Len(x) THEN ParseError
                 ELSE IF x[r.next] = ","
                      THEN ParseMembers(r.next + 1, Append(keys, key),
                                        Append(vals, r.val))
                 ELSE IF x[r.next] = "}"
                      THEN Parsed(JObj(Append(keys, key), Append(vals, r.val)),
                                  r.next + 1)
                 ELSE ParseError
    IN  IF i > Len(x) THEN ParseError
        ELSE IF x[i] = "null" THEN Parsed(JNull, i + 1)
        ELSE IF x[i] = "true" THEN Parsed(JBool(TRUE), i + 1)
        ELSE IF x[i] = "false" THEN Parsed(JBool(FALSE), i + 1)
        ELSE IF x[i] \in NumberTokens
             THEN Parsed(JNum(CHOOSE n \in JsonNumbers : ToString(n) = x[i]),
                         i + 1)
        ELSE IF x[i] \in StringTokens
             THEN Parsed(JStr(CHOOSE str \in JsonStrings : Quote(str) = x[i]),
                         i + 1)
        ELSE IF x[i] = "["
             THEN IF i + 1 <= Len(x) /\ x[i + 1] = "]"
                  THEN Parsed(JArr(<<>>), i + 2)
                  ELSE ParseItems(i + 1, <<>>)
        ELSE IF x[i] = "{"
             THEN IF i + 1 <= Len(x) /\ x[i + 1] = "}"
                  THEN Parsed(EmptyObject, i + 2)
                  ELSE ParseMembers(i + 1, <<>>, <<>>)
        ELSE ParseError

\* JSON.parse(text): the whole text is one value, or a SyntaxError.
JSONparse(x) ==
    LET r == ParseValue(x, 1) IN
    IF r.ok /\ r.next = Len(x) + 1 THEN r ELSE ParseError

\* Buffer.from(string) and Buffer.prototype.toString(): utf8 both ways.
BufferFrom(text) == [i \in 1..Len(text) |-> <<"utf8", text[i]>>]

BufferToString(buf) == [i \in 1..Len(buf) |-> buf[i][2]]

\* new ZeroRabbitMsg(msg), for a msg whose content parses; getJsonMsg() and
\* getMsg().
ZeroRabbitMsg(msg) ==
    [content |-> JSONparse(BufferToString(msg.content)).val, msg |-> msg]

getJsonMsg(message) == message.content

getMsg(message) == message.msg

\* ------------------------------------------------------- configurations

\* The lists of n entries, each entry given by the channel name it declares
\* (its position in the list stands for its own name).
Lists(n) == [1..n -> Names]

\* The topology part of the options of connect, with at most k entries in all.
TopologiesUpTo(k) ==
    UNION {{[exchanges |-> e, queues |-> q, bindings |-> b] :
               e \in Lists(x), q \in Lists(y), b \in Lists(k2 - x - y)} :
           <<x, y, k2>> \in {t \in (0..k) \X (0..k) \X (0..k) :
                                t[1] + t[2] <= t[3]}}

Topologies == TopologiesUpTo(MaxEntries)

\* The configurations with at most one entry.
SmallTopologies == TopologiesUpTo(1)

\* The order in which setupTopology walks the three lists, with the channel
\* method each list's entries are asserted with.
PhasesQueuesFirst(o) ==
    << [op |-> "assertQueue", list |-> o.queues],
       [op |-> "assertExchange", list |-> o.exchanges],
       [op |-> "bindQueue", list |-> o.bindings] >>

Phases(o) ==
    << [op |-> "assertExchange", list |-> o.exchanges],
       [op |-> "assertQueue", list |-> o.queues],
       [op |-> "bindQueue", list |-> o.bindings] >>

\* asyncForEach over the three lists in turn: the entry after position i of
\* phase p, as <<phase, index>>, or <<4, 0>> when the walk is over.
RECURSIVE NextEntryWithoutBindings(_, _, _)
NextEntryWithoutBindings(o, p, i) ==
    IF p > 2 THEN <<4, 0>>
    ELSE IF i < Len(Phases(o)[p].list) THEN <<p, i + 1>>
    ELSE NextEntryWithoutBindings(o, p + 1, 0)

RECURSIVE NextEntry(_, _, _)
NextEntry(o, p, i) ==
    IF p > 3 THEN <<4, 0>>
    ELSE IF i < Len(Phases(o)[p].list) THEN <<p, i + 1>>
    ELSE NextEntry(o, p + 1, 0)

\* ---------------------------------------------------------------- state

VARIABLES
    rabbitConn,    \* this.rabbitConn: Undefined or the connection handle
    channels,      \* this.channels: Map name -> channel handle (or Undefined)
    consumerTags,  \* this.consumerTags: Map name -> consumer tag
    run,           \* the connect() call in progress and its setupTopology
    tasks,         \* the asynchronous API calls made so far, in call order
    budget,        \* number of API calls the caller has still to make
    ret,           \* the last API call and how its synchronous part ended
    created,       \* broker: created[c] is the name channel c was created for
    closed,        \* broker: the channel handles that were closed
    nextTag,       \* broker: number of consumer tags handed out
    brokerLog,     \* the calls made on the broker library, as a bag
    given,         \* per name: the channel the first getChannel to complete
                   \* returned (0: none yet), or -1 once the name was closed
    uncaught,      \* errors that reached no handler of the program
    halted,        \* the process was terminated by an uncaught error
    consumers,     \* broker: consumers[k] is the channel consumer tag k is on
    wire,          \* broker: the messages published and not yet delivered
    inbox          \* the message wrappers passed to the consume callbacks

vars == << rabbitConn, channels, consumerTags, run, tasks, budget, ret,
           created, closed, nextTag, brokerLog, given, uncaught, halted,
           consumers, wire, inbox >>

\* Continuations scheduled as microtasks.
MicroPcs == {"catch", "created", "resume", "next", "then"}

MicrotaskPending ==
    \/ run.pc \in MicroPcs
    \/ \E t \in 1..Len(tasks) : tasks[t].pc \in MicroPcs

\* A broker reply callback runs as a job of its own, after the microtasks.
CanReply == ~halted /\ ~MicrotaskPending

\* An error nobody catches (an exception thrown inside a broker callback, or
\* the rejection of a promise nobody handles): the runtime terminates the
\* process, unless the host installed a process-level handler.
Throw(kind) ==
    /\ uncaught' = uncaught \cup {kind}
    /\ halted' \in BOOLEAN

NoThrow == UNCHANGED << uncaught, halted >>

\* A call on the broker library: the method, the channel handle it is called
\* on (0: the library or the connection) and the consumer tag passed, if any.
LogEntry(op, ch, arg) == [op |-> op, ch |-> ch, arg |-> arg]

Logged(entry) == brokerLog (+) SetToBag({entry})

\* `msg` is the position in the inbox of the message wrapper passed to the
\* call, 0 when the call takes none or is passed another one.
Call(op, name, connection, url, err) ==
    [op |-> op, name |-> name, connection |-> connection, url |-> url,
     err |-> err, msg |-> 0]

\* The state after construction (lines 21-25), no API call made yet, for a
\* caller that makes n calls.
InitWith(n) ==
    /\ rabbitConn = Undefined
    /\ channels = EmptyMap
    /\ consumerTags = EmptyMap
    /\ run = [pc |-> "idle", opts |-> [exchanges |-> <<>>, queues |-> <<>>,
                                       bindings |-> <<>>],
              cb |-> FALSE, phase |-> 0, i |-> 0, ch |-> Undefined,
              cbs |-> <<>>, inflight |-> {}, rejected |-> {},
              connErr |-> FALSE, since |-> 0, req |-> FALSE, log |-> <<>>]
    /\ tasks = <<>>
    /\ budget = n
    /\ ret = Call("none", "", FALSE, "undefined", "none")
    /\ created = <<>>
    /\ closed = {}
    /\ nextTag = 0
    /\ brokerLog = EmptyBag
    /\ given = [n2 \in Names |-> 0]
    /\ uncaught = {}
    /\ halted = FALSE
    /\ consumers = <<>>
    /\ wire = <<>>
    /\ inbox = <<>>

Init == InitWith(MaxCalls)

InitAck == InitWith(MaxAckCalls)

InitTopology == InitWith(MaxTopologyCalls)

InitRegistry == InitWith(MaxRegistryCalls)

InitMessages == InitWith(MaxMessageCalls)

\* One more API call is made.
ApiCall ==
    /\ ~halted
    /\ budget > 0
    /\ budget' = budget - 1

\* ------------------------------------------------------------ getChannel

\* The synchronous part of getChannel(name): the channel found in the map, or
\* a createConfirmChannel request, or (no connection) the executor's TypeError,
\* which rejects the promise without any request.
GetChannelEnter(name, conn) ==
    LET ch == MapGet(channels, name) IN
    IF ch # Undefined THEN [pc |-> "resume", ch |-> ch, req |-> FALSE]
    ELSE IF conn = Undefined
         THEN [pc |-> "catch", ch |-> Undefined, req |-> FALSE]
         ELSE [pc |-> "creating", ch |-> Undefined, req |-> TRUE]

\* The log after the synchronous part of a getChannel made by process `by`.
LogAfterEnter(e) ==
    IF e.req THEN Logged(LogEntry("createConfirmChannel", 0, 0)) ELSE brokerLog

\* The callback of createConfirmChannel for `name`: on error it rejects and
\* then still stores the (undefined) channel under the name.
ChannelsAfterCreateStoresHandle(name, ok) ==
    MapSet(channels, name, Len(created) + 1)

ChannelsAfterCreateAllNames(name, ok) ==
    [x \in (DOMAIN channels) \cup {name} |->
        IF ok THEN Len(created) + 1 ELSE Undefined]

ChannelsAfterCreate(name, ok) ==
    IF ok THEN MapSet(channels, name, Len(created) + 1)
    ELSE MapSet(channels, name, Undefined)

\* A getChannel(name) completed with channel ch.
GivenAfter(name, ch) ==
    IF ch # Undefined /\ given[name] = 0
    THEN [given EXCEPT ![name] = ch]
    ELSE given

GivenAfterEnter(name, e) ==
    IF e.pc = "resume" THEN GivenAfter(name, e.ch) ELSE given

\* ---------------------------------------------------------------- connect

\* How connect() validates its options before calling the broker library.
ConfigErrorBothAllowed(connection, url) ==
    IF connection THEN "none"
    ELSE IF Truthy(url) THEN "none"
    ELSE "ConfigurationError"

ConfigError(connection, url) ==
    IF connection /\ Truthy(url) THEN "ConfigurationError"
    ELSE IF connection THEN "none"
    ELSE IF Truthy(url) THEN "none"
    ELSE "ConfigurationError"

\* connect(opts, callback), up to the amqp.connect request; the topology part
\* of opts is one of `configs`.  The model follows one connection: the client
\* is connected once.
connect(connection, url, cb, configs) ==
    /\ ApiCall
    /\ ret' = Call("connect", "", connection, url, ConfigError(connection, url))
    /\ IF ConfigError(connection, url) # "none"
       THEN UNCHANGED << run, brokerLog >>
       ELSE /\ run.pc = "idle"
            /\ \E o \in configs :
                  run' = [run EXCEPT !.pc = "connecting", !.opts = o, !.cb = cb]
            /\ brokerLog' = Logged(LogEntry("connect", 0, 0))
    /\ UNCHANGED << rabbitConn, channels, consumerTags, tasks, created, closed,
                    nextTag, given, uncaught, halted,
                    consumers, wire, inbox >>

\* The channel name of the entry at <<phase, index>>.
EntryName(o, pos) == Phases(o)[pos[1]].list[pos[2]]

\* The run's state on entering the entry at pos (getChannel of its channel
\* name), or on leaving the last list (setupTopology resolves).
RunEnter(r, pos, conn) ==
    IF pos[1] > 3
    THEN [r EXCEPT !.pc = "then", !.phase = 4, !.i = 0, !.ch = Undefined]
    ELSE LET e == GetChannelEnter(EntryName(r.opts, pos), conn) IN
         [r EXCEPT !.pc = e.pc, !.phase = pos[1], !.i = pos[2], !.ch = e.ch,
                   !.since = given[EntryName(r.opts, pos)], !.req = e.req]

RunLogEnter(r, pos, conn) ==
    IF pos[1] > 3 THEN brokerLog
    ELSE LogAfterEnter(GetChannelEnter(EntryName(r.opts, pos), conn))

RunGivenEnter(r, pos, conn) ==
    IF pos[1] > 3 THEN given
    ELSE GivenAfterEnter(EntryName(r.opts, pos),
                         GetChannelEnter(EntryName(r.opts, pos), conn))

\* The callback of amqp.connect.  On error it reads `cb`, a name that is not
\* declared anywhere: a ReferenceError, thrown inside the broker callback.
\* On success it stores the connection and starts setupTopology, which runs
\* synchronously up to the first entry's getChannel.
ConnectReply(ok) ==
    /\ CanReply
    /\ run.pc = "connecting"
    /\ IF ok
       THEN /\ rabbitConn' = 1
            /\ LET pos == NextEntry(run.opts, 1, 0) IN
               /\ run' = RunEnter(run, pos, 1)
               /\ brokerLog' = RunLogEnter(run, pos, 1)
               /\ given' = RunGivenEnter(run, pos, 1)
            /\ NoThrow
       ELSE /\ run' = [run EXCEPT !.pc = "failed", !.connErr = TRUE]
            /\ Throw("ReferenceError")
            /\ UNCHANGED << rabbitConn, brokerLog, given >>
    /\ UNCHANGED << channels, consumerTags, tasks, budget, ret, created, closed,
                    nextTag,
                    consumers, wire, inbox >>

\* The broker answers the createConfirmChannel of the run's current entry.
RunCreateReply(ok) ==
    /\ CanReply
    /\ run.pc = "creating"
    /\ channels' = ChannelsAfterCreate(EntryName(run.opts, <<run.phase, run.i>>), ok)
    /\ created' = IF ok
                  THEN Append(created, EntryName(run.opts, <<run.phase, run.i>>))
                  ELSE created
    /\ run' = IF ok
              THEN [run EXCEPT !.pc = "created", !.ch = Len(created) + 1]
              ELSE [run EXCEPT !.pc = "catch"]
    /\ UNCHANGED << rabbitConn, consumerTags, tasks, budget, ret, closed,
                    nextTag, brokerLog, given, uncaught, halted,
                    consumers, wire, inbox >>

\* getChannel without a callback: its catch handler throws, the rejection goes
\* up through assertExchange/assertQueue/bindQueue and setupTopology, and
\* connect() handles no rejection of setupTopology.
RunCatch ==
    /\ ~halted
    /\ run.pc = "catch"
    /\ run' = [run EXCEPT !.pc = "failed"]
    /\ Throw("ChannelCreationError")
    /\ UNCHANGED << rabbitConn, channels, consumerTags, tasks, budget, ret,
                    created, closed, nextTag, brokerLog, given,
                    consumers, wire, inbox >>

\* getChannel goes on after its await and returns the created channel.
RunCreated ==
    /\ ~halted
    /\ run.pc = "created"
    /\ run' = [run EXCEPT !.pc = "resume"]
    /\ given' = GivenAfter(EntryName(run.opts, <<run.phase, run.i>>), run.ch)
    /\ UNCHANGED << rabbitConn, channels, consumerTags, tasks, budget, ret,
                    created, closed, nextTag, brokerLog, uncaught, halted,
                    consumers, wire, inbox >>

\* After `await this.getChannel(channelName)`: the assertion request is made
\* on the channel and assertExchange/assertQueue/bindQueue returns, without
\* waiting for the broker's answer.  A closed handle throws instead, and no
\* request goes out.
RunResume ==
    /\ ~halted
    /\ run.pc = "resume"
    /\ brokerLog' = Logged(LogEntry(Phases(run.opts)[run.phase].op, run.ch, 0))
    /\ IF run.ch \in closed
       THEN /\ run' = [run EXCEPT !.pc = "failed"]
            /\ Throw("IllegalOperationError")
       ELSE /\ run' = [run EXCEPT !.pc = "next",
                         !.log = Append(@, <<Phases(run.opts)[run.phase].op,
                                             run.i>>),
                         !.inflight = @ \cup {<<run.phase, run.i>>}]
            /\ NoThrow
    /\ UNCHANGED << rabbitConn, channels, consumerTags, tasks, budget, ret,
                    created, closed, nextTag, given,
                    consumers, wire, inbox >>

\* asyncForEach goes on to the next entry, or setupTopology resolves.
TopologyNext ==
    /\ ~halted
    /\ run.pc = "next"
    /\ LET pos == NextEntry(run.opts, run.phase, run.i) IN
       /\ run' = RunEnter(run, pos, rabbitConn)
       /\ brokerLog' = RunLogEnter(run, pos, rabbitConn)
       /\ given' = RunGivenEnter(run, pos, rabbitConn)
    /\ UNCHANGED << rabbitConn, channels, consumerTags, tasks, budget, ret,
                    created, closed, nextTag, uncaught, halted,
                    consumers, wire, inbox >>

\* The then-handler of setupTopology in connect: callback(err, conn), err
\* being undefined here.
TopologyThen ==
    /\ ~halted
    /\ run.pc = "then"
    /\ run' = [run EXCEPT !.pc = "done",
                 !.cbs = IF run.cb
                         THEN Append(@, [err |-> FALSE, val |-> rabbitConn])
                         ELSE @]
    /\ UNCHANGED << rabbitConn, channels, consumerTags, tasks, budget, ret,
                    created, closed, nextTag, brokerLog, given, uncaught,
                    halted,
                    consumers, wire, inbox >>

\* The broker answers an assertion of the topology.  setupTopology passes no
\* callback, so an error is thrown inside the broker callback.
TopologyAssertReply(ent, ok) ==
    /\ CanReply
    /\ ent \in run.inflight
    /\ run' = [run EXCEPT !.inflight = @ \ {ent},
                 !.rejected = IF ok THEN @ ELSE @ \cup {ent}]
    /\ IF ok THEN NoThrow ELSE Throw("AssertionError")
    /\ UNCHANGED << rabbitConn, channels, consumerTags, tasks, budget, ret,
                    created, closed, nextTag, brokerLog, given,
                    consumers, wire, inbox >>

\* ------------------------------------------------- asynchronous API calls

\* The operations that resolve their channel with `await this.getChannel`.
RequestOps == {"assertExchange", "assertQueue", "bindQueue", "deleteQueue"}

ChannelOps == RequestOps \cup {"setChannelPrefetch", "publish", "consume"}

\* `val` is the JsonMessage argument of a publish and `body` its JSON text.
NewTask(op, name, cb, e) ==
    [op |-> op, name |-> name, cb |-> cb, pc |-> e.pc, ch |-> e.ch,
     cbs |-> <<>>, since |-> given[name], req |-> e.req,
     val |-> EmptyObject, body |-> JSONstringify(EmptyObject)]

\* getChannel(channelName, callback) called by the program: a channel found
\* in the map is passed to the callback, or returned, at once.
getChannel(name, cb) ==
    /\ ApiCall
    /\ LET e == GetChannelEnter(name, rabbitConn)
           t == NewTask("getChannel", name, cb, e) IN
       /\ tasks' = Append(tasks,
            IF e.pc = "resume"
            THEN [t EXCEPT !.pc = "done",
                           !.cbs = IF cb THEN << [err |-> FALSE, val |-> e.ch] >>
                                   ELSE <<>>]
            ELSE t)
       /\ brokerLog' = LogAfterEnter(e)
       /\ given' = GivenAfterEnter(name, e)
    /\ ret' = Call("getChannel", name, FALSE, "undefined", "none")
    /\ UNCHANGED << rabbitConn, channels, consumerTags, run, created, closed,
                    nextTag, uncaught, halted,
                    consumers, wire, inbox >>

\* assertExchange, assertQueue, bindQueue, deleteQueue, setChannelPrefetch,
\* publish or consume called by the program, up to `await this.getChannel`.
ChannelOp(op, name, cb) ==
    /\ ApiCall
    /\ op \in ChannelOps
    /\ cb => op \in RequestOps
    /\ LET e == GetChannelEnter(name, rabbitConn) IN
       /\ tasks' = Append(tasks, NewTask(op, name, cb, e))
       /\ brokerLog' = LogAfterEnter(e)
       /\ given' = GivenAfterEnter(name, e)
    /\ ret' = Call(op, name, FALSE, "undefined", "none")
    /\ UNCHANGED << rabbitConn, channels, consumerTags, run, created, closed,
                    nextTag, uncaught, halted,
                    consumers, wire, inbox >>

\* publish(channelName, exName, JsonMessage, ...): the message is turned into
\* JSON text before `await this.getChannel`.
publish(name, v) ==
    /\ ApiCall
    /\ LET e == GetChannelEnter(name, rabbitConn) IN
       /\ tasks' = Append(tasks, [NewTask("publish", name, FALSE, e)
                                    EXCEPT !.val = v,
                                           !.body = JSONstringify(v)])
       /\ brokerLog' = LogAfterEnter(e)
       /\ given' = GivenAfterEnter(name, e)
    /\ ret' = Call("publish", name, FALSE, "undefined", "none")
    /\ UNCHANGED << rabbitConn, channels, consumerTags, run, created, closed,
                    nextTag, uncaught, halted,
                    consumers, wire, inbox >>

\* The broker answers the createConfirmChannel of task t.
TaskCreateReply(t, ok) ==
    /\ CanReply
    /\ tasks[t].pc = "creating"
    /\ channels' = ChannelsAfterCreate(tasks[t].name, ok)
    /\ created' = IF ok THEN Append(created, tasks[t].name) ELSE created
    /\ tasks' = [tasks EXCEPT ![t] =
                   IF ok THEN [@ EXCEPT !.pc = "created", !.ch = Len(created) + 1]
                   ELSE [@ EXCEPT !.pc = "catch"]]
    /\ UNCHANGED << rabbitConn, consumerTags, run, budget, ret, closed, nextTag,
                    brokerLog, given, uncaught, halted,
                    consumers, wire, inbox >>

\* The catch handler of getChannel: with a callback it passes the error to it
\* and returns, so that getChannel goes on with ch undefined; without one it
\* throws, and the rejection reaches no handler.
TaskCatch(t) ==
    /\ ~halted
    /\ tasks[t].pc = "catch"
    /\ IF tasks[t].op = "getChannel" /\ tasks[t].cb
       THEN /\ tasks' = [tasks EXCEPT ![t] =
                           [@ EXCEPT !.pc = "created", !.ch = Undefined,
                                     !.cbs = Append(@, [err |-> TRUE,
                                                        val |-> Undefined])]]
            /\ NoThrow
       ELSE /\ tasks' = [tasks EXCEPT ![t] = [@ EXCEPT !.pc = "failed"]]
            /\ Throw("ChannelCreationError")
    /\ UNCHANGED << rabbitConn, channels, consumerTags, run, budget, ret,
                    created, closed, nextTag, brokerLog, given,
                    consumers, wire, inbox >>

\* getChannel goes on after its await: callback(undefined, ch), or return ch.
TaskCreated(t) ==
    /\ ~halted
    /\ tasks[t].pc = "created"
    /\ tasks' = [tasks EXCEPT ![t] =
                   IF tasks[t].op = "getChannel"
                   THEN [@ EXCEPT !.pc = "done",
                           !.cbs = IF tasks[t].cb
                                   THEN Append(@, [err |-> FALSE,
                                                   val |-> tasks[t].ch])
                                   ELSE @]
                   ELSE [@ EXCEPT !.pc = "resume"]]
    /\ given' = GivenAfter(tasks[t].name, tasks[t].ch)
    /\ UNCHANGED << rabbitConn, channels, consumerTags, run, budget, ret,
                    created, closed, nextTag, brokerLog, uncaught, halted,
                    consumers, wire, inbox >>

\* After `await this.getChannel(channelName)` in a channel operation: the
\* call on the channel.  publish and prefetch expect no answer; a closed
\* handle throws.  A published message goes to the broker as a Buffer of the
\* JSON text; its id is the number of the publish call.
TaskResume(t) ==
    /\ ~halted
    /\ tasks[t].pc = "resume"
    /\ brokerLog' = Logged(LogEntry(tasks[t].op, tasks[t].ch, 0))
    /\ IF tasks[t].ch \in closed
       THEN /\ tasks' = [tasks EXCEPT ![t] = [@ EXCEPT !.pc = "failed"]]
            /\ Throw("IllegalOperationError")
       ELSE /\ tasks' = [tasks EXCEPT ![t] =
                           [@ EXCEPT !.pc =
                               IF tasks[t].op \in {"publish", "setChannelPrefetch"}
                               THEN "done" ELSE "awaitReply"]]
            /\ NoThrow
    /\ wire' = IF tasks[t].op = "publish" /\ tasks[t].ch \notin closed
               THEN Append(wire, [id |-> t,
                                  content |-> BufferFrom(tasks[t].body)])
               ELSE wire
    /\ UNCHANGED << rabbitConn, channels, consumerTags, run, budget, ret,
                    created, closed, nextTag, given,
                    consumers, inbox >>

\* The broker answers the request of task t: the callback of the caller gets
\* (err, result); without a callback an error is thrown inside the broker
\* callback.  A confirmed consume stores the consumer tag under the name.
TaskReply(t, ok) ==
    /\ CanReply
    /\ tasks[t].pc = "awaitReply"
    /\ tasks' = [tasks EXCEPT ![t] =
                   [@ EXCEPT !.pc = "done",
                       !.cbs = IF tasks[t].cb
                               THEN Append(@, [err |-> ~ok, val |-> Undefined])
                               ELSE @]]
    /\ IF tasks[t].op = "consume" /\ ok
       THEN /\ nextTag' = nextTag + 1
            /\ consumerTags' = MapSet(consumerTags, tasks[t].name, nextTag + 1)
            /\ consumers' = Append(consumers, tasks[t].ch)
       ELSE UNCHANGED << nextTag, consumerTags, consumers >>
    /\ IF ~ok /\ ~tasks[t].cb THEN Throw("BrokerError") ELSE NoThrow
    /\ UNCHANGED << rabbitConn, channels, run, budget, ret, created, closed,
                    brokerLog, given,
                    wire, inbox >>

\* The consumer tags that were cancelled.
Cancelled == {e.arg : e \in {x \in BagToSet(brokerLog) : x.op = "cancel"}}

\* The broker delivers the oldest message to the consumer with tag k: the
\* function consume passed to ch.consume wraps it and calls the callback of
\* the caller with the wrapper.  A content that does not parse throws inside
\* the broker callback.
Deliver(k) ==
    /\ CanReply
    /\ wire # <<>>
    /\ k \in 1..Len(consumers)
    /\ consumers[k] \notin closed
    /\ k \notin Cancelled
    /\ wire' = Tail(wire)
    /\ IF JSONparse(BufferToString(Head(wire).content)).ok
       THEN /\ inbox' = Append(inbox, ZeroRabbitMsg(Head(wire)))
            /\ NoThrow
       ELSE /\ inbox' = inbox
            /\ Throw("SyntaxError")
    /\ UNCHANGED << rabbitConn, channels, consumerTags, run, tasks, budget, ret,
                    created, closed, nextTag, brokerLog, given, consumers >>

\* -------------------------------------------------- synchronous API calls

\* checkChannelExists(ch): TRUE when it returns, FALSE when it throws.
checkChannelExistsNever(ch) == TRUE

checkChannelExists(ch) == ch # Undefined

AckOps == {"ack", "ackAll", "nack", "nackAll"}

\* ack, ackAll, nack, nackAll: the channel is looked up, not created.
Ack(op, name) ==
    /\ ApiCall
    /\ op \in AckOps
    /\ LET ch == MapGet(channels, name) IN
       IF checkChannelExists(ch)
       THEN /\ brokerLog' = Logged(LogEntry(op, ch, 0))
            /\ ret' = Call(op, name, FALSE, "undefined", "none")
       ELSE /\ ret' = Call(op, name, FALSE, "undefined", "ChannelNotFound")
            /\ UNCHANGED brokerLog
    /\ UNCHANGED << rabbitConn, channels, consumerTags, run, tasks, created,
                    closed, nextTag, given, uncaught, halted,
                    consumers, wire, inbox >>

\* ack or nack with message wrapper k of the inbox: message.getMsg() is passed
\* to the channel.
AckMessage(op, name, k) ==
    /\ ApiCall
    /\ op \in {"ack", "nack"}
    /\ k \in 1..Len(inbox)
    /\ LET ch == MapGet(channels, name) IN
       IF checkChannelExists(ch)
       THEN /\ brokerLog' = Logged(LogEntry(op, ch, getMsg(inbox[k]).id))
            /\ ret' = [Call(op, name, FALSE, "undefined", "none")
                         EXCEPT !.msg = k]
       ELSE /\ ret' = [Call(op, name, FALSE, "undefined", "ChannelNotFound")
                         EXCEPT !.msg = k]
            /\ UNCHANGED brokerLog
    /\ UNCHANGED << rabbitConn, channels, consumerTags, run, tasks, created,
                    closed, nextTag, given, uncaught, halted,
                    consumers, wire, inbox >>

\* closeChannel(channelName): ch.close() and this.channels.delete.
closeChannelKeepsEntry(name) ==
    /\ ApiCall
    /\ LET ch == MapGet(channels, name) IN
       IF checkChannelExists(ch)
       THEN /\ brokerLog' = Logged(LogEntry("close", ch, 0))
            /\ closed' = closed \cup {ch}
            /\ given' = [given EXCEPT ![name] = -1]
            /\ ret' = Call("closeChannel", name, FALSE, "undefined", "none")
       ELSE /\ ret' = Call("closeChannel", name, FALSE, "undefined",
                           "ChannelNotFound")
            /\ UNCHANGED << brokerLog, closed, given >>
    /\ UNCHANGED << rabbitConn, channels, consumerTags, run, tasks, created,
                    nextTag, uncaught, halted,
                    consumers, wire, inbox >>

closeChannel(name) ==
    /\ ApiCall
    /\ LET ch == MapGet(channels, name) IN
       IF checkChannelExists(ch)
       THEN /\ brokerLog' = Logged(LogEntry("close", ch, 0))
            /\ closed' = closed \cup {ch}
            /\ channels' = MapDelete(channels, name)
            /\ given' = [given EXCEPT ![name] = -1]
            /\ ret' = Call("closeChannel", name, FALSE, "undefined", "none")
       ELSE /\ ret' = Call("closeChannel", name, FALSE, "undefined",
                           "ChannelNotFound")
            /\ UNCHANGED << brokerLog, closed, channels, given >>
    /\ UNCHANGED << rabbitConn, consumerTags, run, tasks, created, nextTag,
                    uncaught, halted,
                    consumers, wire, inbox >>

\* cancelChannel(channelName): ch.cancel with the tag stored under the name.
cancelChannelWithoutTag(name) ==
    /\ ApiCall
    /\ LET ch == MapGet(channels, name) IN
       IF checkChannelExists(ch)
       THEN /\ brokerLog' = Logged(LogEntry("cancel", ch, Undefined))
            /\ ret' = Call("cancelChannel", name, FALSE, "undefined", "none")
       ELSE /\ ret' = Call("cancelChannel", name, FALSE, "undefined",
                           "ChannelNotFound")
            /\ UNCHANGED brokerLog
    /\ UNCHANGED << rabbitConn, channels, consumerTags, run, tasks, created,
                    closed, nextTag, given, uncaught, halted,
                    consumers, wire, inbox >>

cancelChannel(name) ==
    /\ ApiCall
    /\ LET ch == MapGet(channels, name) IN
       IF checkChannelExists(ch)
       THEN /\ brokerLog' = Logged(LogEntry("cancel", ch,
                                            MapGet(consumerTags, name)))
            /\ ret' = Call("cancelChannel", name, FALSE, "undefined", "none")
       ELSE /\ ret' = Call("cancelChannel", name, FALSE, "undefined",
                           "ChannelNotFound")
            /\ UNCHANGED brokerLog
    /\ UNCHANGED << rabbitConn, channels, consumerTags, run, tasks, created,
                    closed, nextTag, given, uncaught, halted,
                    consumers, wire, inbox >>

\* ------------------------------------------------------- specifications

\* A caller of the channel registry: it connects with a url and a
\* configuration of at most one entry, and gets and closes channels.
Next ==
    \/ connect(FALSE, "amqp://host", FALSE, SmallTopologies)
    \/ \E ok \in BOOLEAN : ConnectReply(ok)
    \/ \E ok \in BOOLEAN : RunCreateReply(ok)
    \/ RunCatch
    \/ RunCreated
    \/ RunResume
    \/ TopologyNext
    \/ TopologyThen
    \/ \E ent \in run.inflight, ok \in BOOLEAN : TopologyAssertReply(ent, ok)
    \/ \E n \in Names, cb \in BOOLEAN : getChannel(n, cb)
    \/ \E t \in 1..Len(tasks), ok \in BOOLEAN : TaskCreateReply(t, ok)
    \/ \E t \in 1..Len(tasks) : TaskCatch(t)
    \/ \E t \in 1..Len(tasks) : TaskCreated(t)
    \/ \E n \in Names : closeChannel(n)

Spec == Init /\ [][Next]_vars

\* A caller that connects, with any options, a callback or none, and a
\* configuration of at most one entry, again and again, and closes channels.
NextConnect ==
    \/ \E c \in BOOLEAN, u \in Urls, cb \in BOOLEAN :
          connect(c, u, cb, SmallTopologies)
    \/ \E ok \in BOOLEAN : ConnectReply(ok)
    \/ \E ok \in BOOLEAN : RunCreateReply(ok)
    \/ RunCatch
    \/ RunCreated
    \/ RunResume
    \/ TopologyNext
    \/ TopologyThen
    \/ \E ent \in run.inflight, ok \in BOOLEAN : TopologyAssertReply(ent, ok)
    \/ \E n \in Names : closeChannel(n)

SpecConnect == Init /\ [][NextConnect]_vars

\* A caller that consumes and acknowledges: it connects with a url and no
\* topology, consumes, and acks, nacks, cancels and closes.
NextAck ==
    \/ connect(FALSE, "amqp://host", FALSE, TopologiesUpTo(0))
    \/ \E ok \in BOOLEAN : ConnectReply(ok)
    \/ TopologyThen
    \/ \E n \in Names : ChannelOp("consume", n, FALSE)
    \/ \E t \in 1..Len(tasks), ok \in BOOLEAN : TaskCreateReply(t, ok)
    \/ \E t \in 1..Len(tasks) : TaskCatch(t)
    \/ \E t \in 1..Len(tasks) : TaskCreated(t)
    \/ \E t \in 1..Len(tasks) : TaskResume(t)
    \/ \E t \in 1..Len(tasks), ok \in BOOLEAN : TaskReply(t, ok)
    \/ \E op \in AckOps, n \in Names : Ack(op, n)
    \/ \E n \in Names : closeChannel(n)
    \/ \E n \in Names : cancelChannel(n)

SpecAck == InitAck /\ [][NextAck]_vars

\* A full configuration, connected with a url and a callback, with a caller
\* that closes channels while it is set up.
NextTopology ==
    \/ connect(FALSE, "amqp://host", TRUE, Topologies)
    \/ \E ok \in BOOLEAN : ConnectReply(ok)
    \/ \E ok \in BOOLEAN : RunCreateReply(ok)
    \/ RunCatch
    \/ RunCreated
    \/ RunResume
    \/ TopologyNext
    \/ TopologyThen
    \/ \E ent \in run.inflight, ok \in BOOLEAN : TopologyAssertReply(ent, ok)
    \/ \E n \in Names : closeChannel(n)

SpecTopology == InitTopology /\ [][NextTopology]_vars

\* A caller of the channel registry without callbacks: it connects with a url
\* and no topology, gets channels, acks on them and closes them.
NextRegistry ==
    \/ connect(FALSE, "amqp://host", FALSE, TopologiesUpTo(0))
    \/ \E ok \in BOOLEAN : ConnectReply(ok)
    \/ TopologyThen
    \/ \E n \in Names : getChannel(n, FALSE)
    \/ \E t \in 1..Len(tasks), ok \in BOOLEAN : TaskCreateReply(t, ok)
    \/ \E t \in 1..Len(tasks) : TaskCatch(t)
    \/ \E t \in 1..Len(tasks) : TaskCreated(t)
    \/ \E n \in Names : Ack("ack", n)
    \/ \E n \in Names : closeChannel(n)

SpecRegistry == InitRegistry /\ [][NextRegistry]_vars

\* The publish calls made so far.
PublishTasks == {t \in 1..Len(tasks) : tasks[t].op = "publish"}

\* The consume calls made so far.
ConsumeTasks == {t \in 1..Len(tasks) : tasks[t].op = "consume"}

\* A caller with one consumer and one message, on one channel: it connects
\* with a url and no topology, consumes, publishes a JSON value and acks or
\* nacks the messages it is given.
NextMessages ==
    \/ connect(FALSE, "amqp://host", FALSE, TopologiesUpTo(0))
    \/ \E ok \in BOOLEAN : ConnectReply(ok)
    \/ TopologyThen
    \/ ConsumeTasks = {} /\ ChannelOp("consume", "a", FALSE)
    \/ PublishTasks = {} /\ \E v \in JsonValues : publish("a", v)
    \/ \E t \in 1..Len(tasks), ok \in BOOLEAN : TaskCreateReply(t, ok)
    \/ \E t \in 1..Len(tasks) : TaskCatch(t)
    \/ \E t \in 1..Len(tasks) : TaskCreated(t)
    \/ \E t \in 1..Len(tasks) : TaskResume(t)
    \/ \E t \in 1..Len(tasks), ok \in BOOLEAN : TaskReply(t, ok)
    \/ \E k \in 1..Len(consumers) : Deliver(k)
    \/ \E op \in {"ack", "nack"}, k \in 1..Len(inbox) : AckMessage(op, "a", k)

SpecMessages == InitMessages /\ [][NextMessages]_vars

\* ------------------------------------------------------------- claims

\* The getChannel calls of the program: the tasks with op "getChannel".
GetChannelTasks == {t \in 1..Len(tasks) : tasks[t].op = "getChannel"}

\* The channels that are open at the broker.
OpenChannels == {c \in 1..Len(created) : c \notin closed}

\* C1: two getChannel calls for the same unregistered name that overlap send
\* one creation request between them (so no two of them wait for a creation
\* at the same time), and no two open channels were created for one name.
C1_OneCreationPerName ==
    /\ \A t1, t2 \in GetChannelTasks :
          (t1 # t2 /\ tasks[t1].name = tasks[t2].name
             /\ tasks[t1].pc = "creating")
          => tasks[t2].pc # "creating"
    /\ \A c1, c2 \in OpenChannels :
          created[c1] = created[c2] => c1 = c2

\* C2: a getChannel(name) made after a getChannel(name) completed with a
\* channel, and before any closeChannel(name), sends no creation request and
\* returns that channel.  (`since` is the channel the first completed
\* getChannel(name) had returned when the call was made, if the name had not
\* been closed.)
C2_LaterCallsReuseChannel ==
    /\ \A t \in 1..Len(tasks) :
          tasks[t].since > 0 =>
             /\ ~tasks[t].req
             /\ tasks[t].pc \in {"resume", "awaitReply", "done"}
                  => tasks[t].ch = tasks[t].since
    /\ (run.phase \in 1..3 /\ run.since > 0) =>
          /\ ~run.req
          /\ run.pc \in {"resume", "next"} => run.ch = run.since

\* The assertion requests of a configuration in the order the claim gives:
\* exchanges, queues, bindings, each list in input order.
ExpectedLog(o) ==
    [i \in 1..Len(o.exchanges) |-> <<"assertExchange", i>>]
    \o [i \in 1..Len(o.queues) |-> <<"assertQueue", i>>]
    \o [i \in 1..Len(o.bindings) |-> <<"bindQueue", i>>]

\* C3: the assertion requests setupTopology has issued are a prefix of the
\* configuration's entries in the order exchanges, queues, bindings, and all
\* of them once setupTopology has resolved.
C3_TopologyOrder ==
    /\ Len(run.log) <= Len(ExpectedLog(run.opts))
    /\ run.log = SubSeq(ExpectedLog(run.opts), 1, Len(run.log))
    /\ run.pc \in {"then", "done"} => run.log = ExpectedLog(run.opts)

\* C3 witness: a configuration with all three kinds of entries on two channel
\* names has been applied completely.
C3_Witness ==
    /\ run.pc = "done"
    /\ Len(run.opts.exchanges) = 1 /\ Len(run.opts.queues) = 1
    /\ Len(run.opts.bindings) = 1
    /\ run.opts.exchanges[1] # run.opts.queues[1]
    /\ Len(run.log) = 3

\* C4: at most one assertion of the topology is in flight at any time.
C4_OneAssertionInFlight == Cardinality(run.inflight) <= 1

\* The position of an entry in the order exchanges, queues, bindings.
FlatPos(o, ent) ==
    IF ent[1] = 1 THEN ent[2]
    ELSE IF ent[1] = 2 THEN Len(o.exchanges) + ent[2]
    ELSE Len(o.exchanges) + Len(o.queues) + ent[2]

\* C5: once the broker has rejected the assertion of an entry, no request has
\* been issued for an entry after it.
C5_AbortOnFirstFailure ==
    \A ent \in run.rejected : Len(run.log) <= FlatPos(run.opts, ent)

\* C6: when the broker has rejected an assertion, setupTopology does not
\* resolve and connect does not report success to its callback.
C6_FailureIsReported ==
    run.rejected # {} =>
       /\ run.pc \notin {"then", "done"}
       /\ \A k \in 1..Len(run.cbs) : run.cbs[k].err

NotFoundOps == AckOps \cup {"closeChannel", "cancelChannel"}

\* C7: ack, nack, ackAll, nackAll, cancelChannel and closeChannel on a name
\* with no channel fail with the channel-not-found error, call nothing on the
\* broker and leave the channel map and the consumer-tag map as they are.
C7_UnregisteredNameFails ==
    [][(/\ budget' # budget
        /\ ret'.op \in NotFoundOps
        /\ MapGet(channels, ret'.name) = Undefined)
       => (/\ ret'.err = "ChannelNotFound"
           /\ brokerLog' = brokerLog
           /\ channels' = channels
           /\ consumerTags' = consumerTags)]_vars

\* C7 witness: such a call failed on a name whose channel creation had
\* failed, while the other name had a channel and a consumer tag.
C7_Witness ==
    /\ ret.op \in NotFoundOps
    /\ ret.err = "ChannelNotFound"
    /\ ret.name \in DOMAIN channels
    /\ \E n \in Names : MapGet(channels, n) # Undefined /\ n \in DOMAIN consumerTags

\* C8: connect with both a connection descriptor and a url, or with neither,
\* fails with a configuration error, calls nothing on the broker and leaves
\* the connection, the channel map and the consumer-tag map as they are.
C8_BadConfigFails ==
    [][(/\ budget' # budget
        /\ ret'.op = "connect"
        /\ ret'.connection = (ret'.url # "undefined"))
       => (/\ ret'.err = "ConfigurationError"
           /\ brokerLog' = brokerLog
           /\ rabbitConn' = rabbitConn
           /\ run' = run
           /\ channels' = channels
           /\ consumerTags' = consumerTags)]_vars

\* C8 witness: a connect with both was rejected on a connected client that
\* holds a channel.
C8_Witness ==
    /\ ret.op = "connect"
    /\ ret.connection /\ ret.url # "undefined"
    /\ ret.err = "ConfigurationError"
    /\ rabbitConn # Undefined
    /\ \E n \in Names : MapGet(channels, n) # Undefined

\* C9: when the broker rejects the connection and connect was given a
\* callback, the callback has been invoked exactly once, with the error, and
\* nothing is stored or set up.
C9_ConnectErrorReachesCallback ==
    (run.connErr /\ run.cb) =>
       /\ Len(run.cbs) = 1 /\ run.cbs[1].err
       /\ rabbitConn = Undefined
       /\ run.log = <<>>

\* C10: a getChannel(name, callback) call invokes the callback at most once
\* while it runs and exactly once when it is over, with (err, undefined) or
\* with (undefined, channel).
C10_CallbackExactlyOnce ==
    \A t \in GetChannelTasks :
       tasks[t].cb =>
          /\ Len(tasks[t].cbs) <= 1
          /\ tasks[t].pc = "done" => Len(tasks[t].cbs) = 1
          /\ \A k \in 1..Len(tasks[t].cbs) :
                tasks[t].cbs[k].err = (tasks[t].cbs[k].val = Undefined)

\* C11: getChannel(name) without a callback fails with a channel-creation
\* error when there is no connection or when the broker rejects the creation;
\* when it fails no channel is registered under the name, and as long as no
\* other creation for the name succeeds none is: ack, nack, cancelChannel and
\* closeChannel on the name fail with channel-not-found and call nothing on
\* the broker, and a getChannel(name) finds no channel and sends a creation
\* request on the connection.
C11_FailedCreationRegistersNothing ==
    [][\A t \in 1..Len(tasks) :
         (tasks[t].op = "getChannel" /\ ~tasks[t].cb) =>
            LET n == tasks[t].name
                last == tasks'[Len(tasks')] IN
            /\ (tasks[t].pc = "creating" /\ tasks'[t].pc # "creating"
                   /\ created' = created) => tasks'[t].pc = "catch"
            /\ (tasks[t].pc = "catch" /\ tasks'[t].pc # "catch") =>
                  /\ tasks'[t].pc = "failed"
                  /\ "ChannelCreationError" \in uncaught'
                  /\ MapGet(channels', n) = Undefined
            /\ (tasks[t].pc = "failed" /\ MapGet(channels, n) = Undefined) =>
                  /\ MapGet(channels', n) # Undefined =>
                        /\ Len(created') = Len(created) + 1
                        /\ created'[Len(created')] = n
                  /\ (budget' # budget /\ ret'.name = n
                        /\ ret'.op \in NotFoundOps) =>
                        /\ ret'.err = "ChannelNotFound"
                        /\ brokerLog' = brokerLog
                  /\ (budget' # budget /\ ret'.name = n
                        /\ ret'.op = "getChannel") =>
                        /\ last.pc \in {"creating", "catch"}
                        /\ last.req = (rabbitConn # Undefined)
                        /\ last.req =>
                              brokerLog' =
                                 Logged(LogEntry("createConfirmChannel", 0, 0))]_vars

\* C11 witness: on a connected client the broker rejected the creation for a
\* getChannel(name) without callback, which failed; a later getChannel(name)
\* sent a new creation request, and an ack on the name failed with
\* channel-not-found.
C11_Witness ==
    /\ rabbitConn # Undefined
    /\ Len(tasks) = 2
    /\ tasks[1].name = tasks[2].name
    /\ ~tasks[1].cb /\ tasks[1].pc = "failed"
    /\ tasks[1].name \in DOMAIN channels
    /\ tasks[2].req /\ tasks[2].pc = "creating"
    /\ ret.op = "ack" /\ ret.name = tasks[1].name
    /\ ret.err = "ChannelNotFound"

\* C12: closeChannel(name) on a registered name calls close once, on the
\* channel registered under the name, and removes the name from the channel
\* map, leaving the entries of the other names as they are; a getChannel
\* never obtains a channel that was closed before: one found in the map is
\* not a closed one, one the broker creates is a new one, and a getChannel of
\* a name with no channel sends a creation request.
C12_CloseRemovesAndNeverReturned ==
    [][/\ (budget' # budget /\ ret'.op = "closeChannel"
            /\ MapGet(channels, ret'.name) # Undefined) =>
             /\ ret'.err = "none"
             /\ brokerLog' = Logged(LogEntry("close", channels[ret'.name], 0))
             /\ closed' = closed \cup {channels[ret'.name]}
             /\ DOMAIN channels' = DOMAIN channels \ {ret'.name}
             /\ \A m \in DOMAIN channels' : channels'[m] = channels[m]
       /\ \A t \in 1..Len(tasks') :
             /\ (t > Len(tasks) /\ tasks'[t].ch # Undefined) =>
                   /\ tasks'[t].ch \notin closed
                   /\ tasks'[t].ch = channels[tasks'[t].name]
             /\ (t > Len(tasks) /\ tasks'[t].ch = Undefined
                   /\ rabbitConn # Undefined) =>
                   /\ tasks'[t].req
                   /\ brokerLog' = Logged(LogEntry("createConfirmChannel", 0, 0))
             /\ (t <= Len(tasks) /\ tasks[t].ch = Undefined
                   /\ tasks'[t].ch # Undefined) =>
                   /\ tasks'[t].ch \notin closed
                   /\ tasks'[t].ch \notin 1..Len(created)
                   /\ created'[tasks'[t].ch] = tasks'[t].name]_vars

\* C12 witness: with both names registered the channel of one was closed, and
\* a getChannel of that name made after the close completed with a channel
\* created after the other name's, which is still registered.
C12_Witness ==
    \E n, m \in Names :
       /\ n # m
       /\ MapGet(channels, n) # Undefined /\ MapGet(channels, m) # Undefined
       /\ channels[m] < channels[n]
       /\ \E c \in closed : c < channels[m] /\ created[c] = n
       /\ \E t \in GetChannelTasks :
             /\ tasks[t].since = -1
             /\ tasks[t].pc = "done" /\ tasks[t].ch = channels[n]

\* C13: one consumer tag is remembered per name.  The consumer-tag map only
\* changes when the broker answers a consume: a confirmed consume on a name
\* stores the tag the broker returned under that name, in place of an earlier
\* one, and a rejected one stores nothing.  cancelChannel(name) on a name
\* with a channel and a remembered tag calls cancel once, with that tag, and
\* leaves the map as it is.
C13_OneRememberedTag ==
    [][/\ \A t \in 1..Len(tasks) :
             (tasks[t].op = "consume" /\ tasks[t].pc = "awaitReply"
                /\ tasks'[t].pc # "awaitReply") =>
                IF consumers' # consumers
                THEN /\ consumers' = Append(consumers, tasks[t].ch)
                     /\ DOMAIN consumerTags' =
                           DOMAIN consumerTags \cup {tasks[t].name}
                     /\ consumerTags'[tasks[t].name] = Len(consumers')
                     /\ \A m \in DOMAIN consumerTags \ {tasks[t].name} :
                           consumerTags'[m] = consumerTags[m]
                ELSE consumerTags' = consumerTags
       /\ consumerTags' # consumerTags =>
             \E t \in 1..Len(tasks) :
                /\ tasks[t].op = "consume" /\ tasks[t].pc = "awaitReply"
                /\ tasks'[t].pc # "awaitReply"
       /\ (budget' # budget /\ ret'.op = "cancelChannel"
             /\ MapGet(channels, ret'.name) # Undefined
             /\ ret'.name \in DOMAIN consumerTags) =>
             /\ ret'.err = "none"
             /\ brokerLog' = Logged(LogEntry("cancel", channels[ret'.name],
                                             consumerTags[ret'.name]))
             /\ consumerTags' = consumerTags]_vars

\* C13 witness: two consumes on one name were confirmed, on the same channel,
\* and cancelChannel was called with the second tag, the one remembered.
C13_Witness ==
    /\ ret.op = "cancelChannel" /\ ret.err = "none"
    /\ Len(consumers) = 2 /\ consumers[1] = consumers[2]
    /\ MapGet(consumerTags, ret.name) = 2
    /\ LogEntry("cancel", consumers[2], 2) \in BagToSet(brokerLog)

\* The creation requests sent so far.
CreationRequests == CopiesIn(LogEntry("createConfirmChannel", 0, 0), brokerLog)

\* C14: getChannel calls for different names do not interfere.  Every call
\* that finds no channel under its name sends a creation request of its own;
\* the broker's answer to the request of a call on one name leaves the entry
\* of every other name as it is; a name is registered to a channel that was
\* created for that name, a call that is over returns one, and different
\* names are registered to different channels.
C14_DifferentNamesIndependent ==
    [][/\ CreationRequests' =
             Cardinality({t \in 1..Len(tasks') : tasks'[t].req})
       /\ \A t \in 1..Len(tasks) :
             (tasks[t].pc = "creating" /\ tasks'[t].pc # "creating") =>
                /\ \A m \in Names \ {tasks[t].name} :
                      /\ m \in DOMAIN channels' <=> m \in DOMAIN channels
                      /\ MapGet(channels', m) = MapGet(channels, m)
                /\ tasks'[t].pc = "created" =>
                      /\ channels'[tasks[t].name] = tasks'[t].ch
                      /\ created'[tasks'[t].ch] = tasks[t].name
       /\ \A n \in DOMAIN channels' :
             channels'[n] # Undefined => created'[channels'[n]] = n
       /\ \A n, m \in DOMAIN channels' :
             (n # m /\ channels'[n] # Undefined) => channels'[n] # channels'[m]
       /\ \A t \in 1..Len(tasks') :
             (tasks'[t].pc = "done" /\ tasks'[t].ch # Undefined) =>
                created'[tasks'[t].ch] = tasks'[t].name]_vars

\* C14 witness: getChannel was called for one name and then for the other
\* while the first creation was pending; the broker answered the second
\* request first, and both names are registered, each to its own channel.
C14_Witness ==
    /\ Len(tasks) = 2
    /\ tasks[1].name # tasks[2].name
    /\ tasks[1].req /\ tasks[2].req
    /\ tasks[1].pc = "done" /\ tasks[2].pc = "done"
    /\ tasks[2].ch < tasks[1].ch
    /\ MapGet(channels, tasks[1].name) = tasks[1].ch
    /\ MapGet(channels, tasks[2].name) = tasks[2].ch

\* C15: a JSON value that is published and then delivered to a consumer
\* makes the consume callback get one message wrapper, whose decoded content
\* is that value and whose getMsg() is the message the broker delivered; ack
\* and nack with a wrapper pass that message to the channel registered under
\* the name.
C15_RoundTrip ==
    [][/\ Len(wire') < Len(wire) =>
             /\ Len(inbox') = Len(inbox) + 1
             /\ getMsg(inbox'[Len(inbox')]) = Head(wire)
             /\ getJsonMsg(inbox'[Len(inbox')]) = tasks[Head(wire).id].val
       /\ Len(inbox') >= Len(inbox)
       /\ \A k \in 1..Len(inbox) : inbox'[k] = inbox[k]
       /\ (budget' # budget /\ ret'.op \in {"ack", "nack"} /\ ret'.msg > 0
             /\ MapGet(channels, ret'.name) # Undefined) =>
             brokerLog' = Logged(LogEntry(ret'.op, channels[ret'.name],
                                          getMsg(inbox[ret'.msg]).id))]_vars

\* C15 witness: an object with two members made the round trip, and the
\* wrapper was acked or nacked on its channel.
C15_Witness ==
    /\ Len(inbox) = 1
    /\ getJsonMsg(inbox[1]).t = "obj"
    /\ Len(getJsonMsg(inbox[1]).keys) = 2
    /\ getJsonMsg(inbox[1]) = tasks[getMsg(inbox[1]).id].val
    /\ ret.op \in {"ack", "nack"} /\ ret.msg = 1 /\ ret.err = "none"
    /\ LogEntry(ret.op, channels[ret.name], getMsg(inbox[1]).id)
          \in BagToSet(brokerLog)

\* The connect call has nothing left to do: it failed or its then-handler
\* ran, and the broker has answered every assertion request.
ConnectOver == run.pc \in {"failed", "done"} /\ run.inflight = {}

\* C16: when a connect called with a callback is over, with every request
\* answered, the callback has been invoked, once: with an error when the
\* connection, a channel creation or an assertion failed, and with the
\* connection otherwise.
C16_CallbackWhenOver ==
    (run.cb /\ ConnectOver) =>
       /\ Len(run.cbs) = 1
       /\ run.cbs[1].err = (run.pc = "failed" \/ run.rejected # {})
       /\ ~run.cbs[1].err => run.cbs[1].val = rabbitConn

\* C17: no channel operation (publish, consume, assertExchange, assertQueue,
\* bindQueue, deleteQueue, prefetch) is called on a channel handle that
\* closeChannel has closed.
C17_NoOperationAfterClose ==
    [][\A e \in BagToSet(brokerLog') :
         (CopiesIn(e, brokerLog') > CopiesIn(e, brokerLog) /\ e.op \in ChannelOps)
            => e.ch \notin closed]_vars

\* C18: every cancel that cancelChannel(name) calls carries a consumer tag
\* the broker returned for a consume on the channel it is called on, the one
\* registered under the name: never no tag, never the tag of a consumer on
\* another channel.
C18_CancelWithTagOfChannel ==
    [][\A e \in BagToSet(brokerLog') :
         (CopiesIn(e, brokerLog') > CopiesIn(e, brokerLog) /\ e.op = "cancel")
            => /\ e.arg \in 1..Len(consumers)
               /\ consumers[e.arg] = e.ch]_vars

\* The channel names the entries of a configuration declare.
EntryNames(o) ==
    {o.exchanges[i] : i \in 1..Len(o.exchanges)}
      \cup {o.queues[i] : i \in 1..Len(o.queues)}
      \cup {o.bindings[i] : i \in 1..Len(o.bindings)}

\* C19: connect invokes its callback at most once; when it has, the call was
\* callback(undefined, connection) with the connection handle that is stored,
\* an assertion request has been issued for every exchange, queue and binding
\* of the configuration, and a channel has been created and registered for
\* every channel name the entries declare.
C19_CallbackAfterSetup ==
    /\ Len(run.cbs) <= 1
    /\ run.cbs # <<>> =>
          /\ ~run.cbs[1].err
          /\ rabbitConn # Undefined
          /\ run.cbs[1].val = rabbitConn
          /\ run.log = ExpectedLog(run.opts)
          /\ \A n \in EntryNames(run.opts) :
                \E c \in 1..Len(created) : created[c] = n

\* C19 witness: the callback was invoked after a configuration with an
\* exchange on one channel name and a queue and a binding on the other was
\* set up.
C19_Witness ==
    /\ Len(run.cbs) = 1
    /\ Len(run.opts.exchanges) = 1 /\ Len(run.opts.queues) = 1
    /\ Len(run.opts.bindings) = 1
    /\ run.opts.exchanges[1] # run.opts.queues[1]
    /\ run.opts.bindings[1] = run.opts.queues[1]
    /\ Len(created) = 2

====
